---- MODULE Spec2Model ----
(***************************************************************************)
(* Univariate kernel density estimators of                                 *)
(* scikits/statsmodels/sandbox/nonparametric/kde.py.                       *)
(*                                                                         *)
(* Every function of the file is stateless: a call takes its arguments,    *)
(* computes, and returns or raises.  A behaviour of the model is one call  *)
(* (or, for the transforms, forrt followed by revrt on its result): the    *)
(* initial state holds the arguments, the action applies the function and  *)
(* stores what it returned or raised.                                      *)
(*                                                                         *)
(* Numbers.  numpy's float64 values are modelled as exact rationals        *)
(* <<n, d>> in lowest terms with d > 0.  exp, sqrt, pi and the power       *)
(* nobs**(-1/5.) are irrational and are rounded to a fixed number of       *)
(* binary or decimal places, as floating point rounds them to 53 bits.     *)
(* Strings are tuples of one-character strings so that lower() and         *)
(* float() can be computed character by character.                         *)
(***************************************************************************)
EXTENDS Integers, Sequences, FiniteSets, TLC

VARIABLES pc, fn, arg, ret

vars == <<pc, fn, arg, ret>>

\* Python's None as a returned or raised value; an optional argument is <<>>
\* when it is left at its default None and <<v>> when v is given.
None == "None"

(***************************************************************************)
(* Rational arithmetic (float64 +, -, *, /, comparisons, int()).           *)
(***************************************************************************)
Abs(i) == IF i < 0 THEN -i ELSE i

RECURSIVE GCD(_, _)
GCD(a, b) == IF b = 0 THEN a ELSE GCD(b, a % b)

Q(n, d) ==
  LET g == GCD(Abs(n), Abs(d))
      s == IF d < 0 THEN -1 ELSE 1
  IN  <<(s * n) \div g, (s * d) \div g>>

I(n) == <<n, 1>>

QNeg(x) == <<-x[1], x[2]>>

\* x + y over the least common denominator
QAdd(x, y) ==
  LET g == GCD(x[2], y[2])
  IN  Q(x[1] * (y[2] \div g) + y[1] * (x[2] \div g), (x[2] \div g) * y[2])

QSub(x, y) == QAdd(x, QNeg(y))

\* x * y, cancelling across before multiplying
QMul(x, y) ==
  LET g1 == GCD(Abs(x[1]), y[2])
      g2 == GCD(Abs(y[1]), x[2])
  IN  Q((x[1] \div g1) * (y[1] \div g2), (x[2] \div g2) * (y[2] \div g1))

\* x / y for y # 0
QDiv(x, y) == QMul(x, IF y[1] < 0 THEN <<-y[2], -y[1]>> ELSE <<y[2], y[1]>>)
QLt(x, y) == x[1] * y[2] < y[1] * x[2]
QLe(x, y) == x[1] * y[2] <= y[1] * x[2]
QSq(x) == QMul(x, x)

\* int(x): truncation toward zero
QInt(x) == IF x[1] >= 0 THEN x[1] \div x[2] ELSE -((-x[1]) \div x[2])

\* floor(x), for x >= 0
QFloor(x) == x[1] \div x[2]

\* the largest machine integer of the checker
MaxInt == (2 ^ 30 - 1) * 2 + 1

\* floor(x * prec) for x >= 0; a denominator too long for the product to fit
\* a machine integer is shortened first, as a float keeps 53 bits of it
QFix(x, prec) ==
  LET s == x[2] \div (MaxInt \div prec) + 1
  IN  (x[1] \div x[2]) * prec + (((x[1] % x[2]) \div s) * prec) \div (x[2] \div s)

\* x rounded down to a multiple of 1/prec (x >= 0)
QRound(x, prec) == Q(QFix(x, prec), prec)

RECURSIVE SumTo(_, _)
\* sum of the rationals f[1..n]
SumTo(f, n) == IF n = 0 THEN I(0) ELSE QAdd(SumTo(f, n - 1), f[n])

QSum(s) == SumTo(s, Len(s))

RECURSIVE MinTo(_, _)
MinTo(s, n) ==
  IF n = 1 THEN s[1]
  ELSE LET r == MinTo(s, n - 1) IN IF QLt(s[n], r) THEN s[n] ELSE r

RECURSIVE MaxTo(_, _)
MaxTo(s, n) ==
  IF n = 1 THEN s[1]
  ELSE LET r == MaxTo(s, n - 1) IN IF QLt(r, s[n]) THEN s[n] ELSE r

\* np.min / np.max of a non-empty array
QMin(s) == MinTo(s, Len(s))
QMax(s) == MaxTo(s, Len(s))

(***************************************************************************)
(* Complex numbers <<re, im>> over the rationals, and the discrete Fourier *)
(* transform of length m.  The m-th roots of unity are Gaussian integers   *)
(* exactly when m divides 4, so the transform is exact for m in {1, 2, 4}. *)
(***************************************************************************)
CAdd(x, y) == <<QAdd(x[1], y[1]), QAdd(x[2], y[2])>>
CMul(x, y) == <<QSub(QMul(x[1], y[1]), QMul(x[2], y[2])),
                QAdd(QMul(x[1], y[2]), QMul(x[2], y[1]))>>
CScale(x, q) == <<QMul(x[1], q), QMul(x[2], q)>>
CConj(x) == <<x[1], QNeg(x[2])>>
CZero == <<I(0), I(0)>>

\* exp(-2 pi i e / m) for m dividing 4
Root(m, e) ==
  LET q == (e * (4 \div m)) % 4
  IN  CASE q = 0 -> <<I(1), I(0)>>
        [] q = 1 -> <<I(0), I(-1)>>
        [] q = 2 -> <<I(-1), I(0)>>
        [] q = 3 -> <<I(0), I(1)>>

RECURSIVE CSumTo(_, _)
CSumTo(f, n) == IF n = 0 THEN CZero ELSE CAdd(CSumTo(f, n - 1), f[n])

\* np.fft.rfft(X, m): X is cropped or zero-padded to length m, and the bins
\* 0..m/2 of its transform are returned (a sequence of length m/2+1).
rfft(X, m) ==
  LET x(n) == IF n + 1 <= Len(X) THEN <<X[n + 1], I(0)>> ELSE CZero
  IN  [k1 \in 1..(m \div 2 + 1) |->
         CSumTo([n1 \in 1..m |-> CMul(x(n1 - 1), Root(m, (k1 - 1) * (n1 - 1)))], m)]

\* np.fft.irfft(y): n = 2*(len(y)-1) output points; the spectrum is extended
\* by Hermitian symmetry and the imaginary parts of bin 0 and bin n/2 are
\* discarded.
irfft(y) ==
  LET n == 2 * (Len(y) - 1)
      Y(k) == IF k = 0 \/ k = n \div 2 THEN <<y[k + 1][1], I(0)>>
              ELSE IF k < n \div 2 THEN y[k + 1]
              ELSE CConj(y[n - k + 1])
  IN  [j1 \in 1..n |->
         QDiv(CSumTo([k1 \in 1..n |->
                        CMul(Y(k1 - 1), CConj(Root(n, (k1 - 1) * (j1 - 1))))], n)[1],
              I(n))]

\* forrt(X, m=None), kde.py lines 20-27
forrt(X, m0) ==
  LET m == IF m0 = <<>> THEN Len(X) ELSE m0[1]
      y == rfft(X, m)
      ys == [k \in 1..Len(y) |-> CScale(y[k], Q(1, m))]
  IN  [k \in 1..Len(ys) |-> ys[k][1]]
        \o [k \in 1..(Len(ys) - 2) |-> ys[k + 1][2]]

\* the mutant pads the imaginary parts at the wrong end: np.r_[X[m/2+1:], 0, 0]
revrtShifted(X, m0) ==
  LET m == IF m0 = <<>> THEN Len(X) ELSE m0[1]
      h == m \div 2 + 1
      re == SubSeq(X, 1, h)
      im == SubSeq(X, h + 1, Len(X)) \o <<I(0), I(0)>>
      y == [k \in 1..h |-> <<re[k], im[k]>>]
      r == irfft(y)
  IN  [j \in 1..Len(r) |-> QMul(r[j], I(m))]

\* revrt(X, m=None), kde.py lines 29-36
revrt(X, m0) ==
  LET m == IF m0 = <<>> THEN Len(X) ELSE m0[1]
      h == m \div 2 + 1
      re == SubSeq(X, 1, h)
      im == <<I(0)>> \o SubSeq(X, h + 1, Len(X)) \o <<I(0)>>
      y == [k \in 1..h |-> <<re[k], im[k]>>]
      r == irfft(y)
  IN  [j \in 1..Len(r) |-> QMul(r[j], I(m))]

(***************************************************************************)
(* Inputs.                                                                 *)
(***************************************************************************)
MaxVal == 2

Vals == {I(v) : v \in (-MaxVal)..MaxVal}

\* the lengths at which the transform is exact and the packing is defined
EvenLens == {2, 4}

SeqsOfLen(S, n) == [1..n -> S]

TransformInputs == UNION {SeqsOfLen(Vals, n) : n \in EvenLens}

(***************************************************************************)
(* The round trip: a caller packs a sequence with forrt and hands the      *)
(* packed spectrum to revrt.                                               *)
(***************************************************************************)
InitTransform ==
  /\ pc = "ready"
  /\ fn = "forrt"
  /\ arg \in {[X |-> X, m |-> m] : X \in TransformInputs, m \in {<<>>}}
             \cup {[X |-> X, m |-> <<Len(X)>>] : X \in TransformInputs}
  /\ ret = None

CallForrt ==
  /\ pc = "ready" /\ fn = "forrt"
  /\ ret' = forrt(arg.X, arg.m)
  /\ pc' = "packed"
  /\ UNCHANGED <<fn, arg>>

CallRevrt ==
  /\ pc = "packed"
  /\ ret' = revrt(ret, arg.m)
  /\ pc' = "done"
  /\ fn' = "revrt"
  /\ UNCHANGED arg

NextTransform == CallForrt \/ CallRevrt

SpecTransform == InitTransform /\ [][NextTransform]_vars

\* C1: a packed spectrum of an even-length real sequence, handed to revrt,
\* gives the sequence back: revrt(forrt(X)) = X.
RoundTrip == (pc = "done" /\ fn = "revrt") => ret = arg.X

RoundTripWitness ==
  pc = "done" /\ fn = "revrt" /\ Len(arg.X) = 4 /\ arg.X[2] # arg.X[4]

(***************************************************************************)
(* Linear binning, kde.py lines 55-72.  gcnts is the sequence of the M     *)
(* counts; the code's index i is position i + 1.  A call returns           *)
(* [err |-> None, val |-> gcnts] or raises: [err |-> <exception>,          *)
(* val |-> None].  The arguments are floats with a < b and M >= 2, as      *)
(* kdensityfft passes them.                                                *)
(***************************************************************************)
Ok(v) == [err |-> None, val |-> v]
Raise(e) == [err |-> e, val |-> None]

\* lxi = (x - a)/delta with delta = (b - a)/(M - 1), lines 60 and 63
lxi(x, a, b, M) == QDiv(QSub(x, a), QDiv(QSub(b, a), I(M - 1)))

\* li = int(lxi), line 64
li(x, a, b, M) == QInt(lxi(x, a, b, M))

\* the mutant keeps index 1: li > 0
InBandFromOne(i, M) == i > 0 /\ i < M

\* the guard of line 66
InBand(i, M) == i > 1 /\ i < M

\* the guard of line 69
PastEnd(i, M, trunc) == i > M /\ trunc = 0

\* the mutant forgets line 68, the share of the next bin
linbinStepNoShare(g, x, a, b, M, trunc) ==
  LET l == lxi(x, a, b, M)
      i == QInt(l)
      rem == QSub(l, I(i))
      g1 == IF InBand(i, M)
            THEN IF i + 1 > M - 1 THEN Raise("IndexError")
                 ELSE Ok([g EXCEPT ![i + 1] = QSub(QAdd(g[i + 1], I(1)), rem)])
            ELSE Ok(g)
  IN  IF g1.err # None THEN g1
      ELSE IF PastEnd(i, M, trunc) THEN Raise("NameError")
      ELSE g1

\* the body of the loop for one observation x, lines 63-70, on the counts g
linbinStep(g, x, a, b, M, trunc) ==
  LET l == lxi(x, a, b, M)
      i == QInt(l)
      rem == QSub(l, I(i))
      \* lines 67-68; gcnts[li+1] with li+1 = M is past the end of the array
      g1 == IF InBand(i, M)
            THEN IF i + 1 > M - 1 THEN Raise("IndexError")
                 ELSE Ok([g EXCEPT ![i + 1] = QSub(QAdd(g[i + 1], I(1)), rem),
                                   ![i + 2] = QAdd(g[i + 2], rem)])
            ELSE Ok(g)
  IN  IF g1.err # None THEN g1
      \* line 70 reads the name gncts, which is bound nowhere
      ELSE IF PastEnd(i, M, trunc) THEN Raise("NameError")
      ELSE g1

RECURSIVE linbinLoop(_, _, _, _, _, _, _)
\* the for loop of line 62 from observation n on
linbinLoop(g, X, n, a, b, M, trunc) ==
  IF n > Len(X) THEN Ok(g)
  ELSE LET r == linbinStep(g, X[n], a, b, M, trunc)
       IN  IF r.err # None THEN r
           ELSE linbinLoop(r.val, X, n + 1, a, b, M, trunc)

linbin(X, a, b, M, trunc) ==
  linbinLoop([i \in 1..M |-> I(0)], X, 1, a, b, M, trunc)

MaxLen == 2
MaxM == 5
MaxB == 4
MaxX == 6

LinbinXs == {I(v) : v \in (-1)..MaxX}

SeqsUpTo(S, n) == UNION {SeqsOfLen(S, k) : k \in 0..n}

LinbinInputs ==
  {[X |-> X, a |-> I(a), b |-> I(b), M |-> M, trunc |-> t] :
     X \in SeqsUpTo(LinbinXs, MaxLen), a \in {0}, b \in 1..MaxB,
     M \in 2..MaxM, t \in {0, 1}}

InitLinbin ==
  /\ pc = "ready"
  /\ fn = "linbin"
  /\ arg \in LinbinInputs
  /\ ret = None

CallLinbin ==
  /\ pc = "ready" /\ fn = "linbin"
  /\ ret' = linbin(arg.X, arg.a, arg.b, arg.M, arg.trunc)
  /\ pc' = "done"
  /\ UNCHANGED <<fn, arg>>

NextLinbin == CallLinbin

SpecLinbin == InitLinbin /\ [][NextLinbin]_vars

LinbinDone == pc = "done" /\ fn = "linbin"

\* the grid index of observation n of the call
ArgLi(n) == li(arg.X[n], arg.a, arg.b, arg.M)

Obs == 1..Len(arg.X)

\* C2: when every observation lies strictly inside [a, b] and none has a grid
\* index <= 1 (none is dropped at the boundary), the call returns and the
\* counts sum to len(X).
MassConserved ==
  (LinbinDone /\ \A n \in Obs : /\ QLt(arg.a, arg.X[n]) /\ QLt(arg.X[n], arg.b)
                                /\ ArgLi(n) > 1)
    => (ret.err = None /\ QSum(ret.val) = I(Len(arg.X)))

MassConservedWitness ==
  /\ LinbinDone /\ Len(arg.X) = 2 /\ ret.err = None
  /\ \A n \in Obs : /\ QLt(arg.a, arg.X[n]) /\ QLt(arg.X[n], arg.b)
                    /\ ArgLi(n) > 1
  /\ \E n \in Obs : lxi(arg.X[n], arg.a, arg.b, arg.M) # I(ArgLi(n))

\* the observations of the call that lines 66-68 pass over and those they bin
KeptObs == LET Keep(x) == li(x, arg.a, arg.b, arg.M) > 1 IN SelectSeq(arg.X, Keep)

\* C8: an observation whose grid index is <= 1 is dropped in silence: the call
\* returns (or raises) exactly what it does on the sample without those
\* observations, and a sample of such observations alone gives all-zero
\* counts and no error.
SilentDrop ==
  LinbinDone =>
    /\ ret = linbin(KeptObs, arg.a, arg.b, arg.M, arg.trunc)
    /\ (\A n \in Obs : ArgLi(n) <= 1) => ret = Ok([i \in 1..arg.M |-> I(0)])

SilentDropWitness ==
  /\ LinbinDone /\ ret.err = None
  /\ \E n \in Obs : ArgLi(n) <= 1
  /\ \E n \in Obs : ArgLi(n) > 1 /\ ArgLi(n) < arg.M - 1
                     /\ ret.val[ArgLi(n) + 1] # I(0)

\* the sample of the call without the observations beyond the upper bound b
WithinObs == LET In(x) == QLe(x, arg.b) IN SelectSeq(arg.X, In)

\* C9 as claimed: an observation beyond b is dropped under trunc = 1, and under
\* trunc = 0 adds one to the last bin, the call returning in both cases.
\* (Stated for samples whose other observations are binned without error.)
BeyondUpperBound ==
  (LinbinDone /\ Len(WithinObs) < Len(arg.X))
    => LET base == linbin(WithinObs, arg.a, arg.b, arg.M, arg.trunc)
           k == Len(arg.X) - Len(WithinObs)
       IN  base.err = None =>
             IF arg.trunc = 1 THEN ret = base
             ELSE ret = Ok([base.val EXCEPT ![arg.M] = QAdd(@, I(k))])

\* C10 as claimed: with the default trunc = 1 no observation makes linbin
\* index gcnts out of 0..M-1, and M counts are returned.
BinsInRange ==
  (LinbinDone /\ arg.trunc = 1 /\ arg.M >= 2)
    => (ret.err = None /\ Len(ret.val) = arg.M)

(***************************************************************************)
(* Strings: tuples of one-character strings.                               *)
(***************************************************************************)
LowerLetters == <<"a", "b", "c", "d", "e", "f", "g", "h", "i", "j", "k", "l", "m",
                  "n", "o", "p", "q", "r", "s", "t", "u", "v", "w", "x", "y", "z">>
UpperLetters == <<"A", "B", "C", "D", "E", "F", "G", "H", "I", "J", "K", "L", "M",
                  "N", "O", "P", "Q", "R", "S", "T", "U", "V", "W", "X", "Y", "Z">>

lowerChar(c) ==
  IF \E i \in 1..26 : UpperLetters[i] = c
  THEN LowerLetters[CHOOSE i \in 1..26 : UpperLetters[i] = c]
  ELSE c

\* str.lower()
lower(s) == [i \in 1..Len(s) |-> lowerChar(s[i])]

str_scott == <<"s", "c", "o", "t", "t">>
str_silverman == <<"s", "i", "l", "v", "e", "r", "m", "a", "n">>
str_gauss == <<"g", "a", "u", "s", "s">>
str_epa == <<"e", "p", "a">>

(***************************************************************************)
(* Rounded irrational functions.                                           *)
(***************************************************************************)
\* the places kept when a square root is rounded: 1/SqrtPrec
SqrtPrec == 100
\* the places kept when a fifth root is rounded: 1/RootPrec
RootPrec == 64

RECURSIVE SqrtIn(_, _, _)
\* the largest k in lo..hi with k*k <= t, given lo*lo <= t (by bisection)
SqrtIn(lo, hi, t) ==
  IF lo >= hi THEN lo
  ELSE LET mid == (lo + hi + 1) \div 2
       IN  IF mid * mid <= t THEN SqrtIn(mid, hi, t) ELSE SqrtIn(lo, mid - 1, t)

\* the square roots searched: their squares fit a machine integer
MaxRoot == 2 ^ 15

\* np.sqrt of a rational >= 0, rounded down to 1/SqrtPrec
QSqrt(x) == Q(SqrtIn(0, MaxRoot, (x[1] * SqrtPrec * SqrtPrec) \div x[2]), SqrtPrec)

Pow5(k) == k * k * k * k * k

RECURSIVE RootIn(_, _, _)
\* the largest k in lo..hi with k^5 <= t, given lo^5 <= t (by bisection)
RootIn(lo, hi, t) ==
  IF lo >= hi THEN lo
  ELSE LET mid == (lo + hi + 1) \div 2
       IN  IF Pow5(mid) <= t THEN RootIn(mid, hi, t) ELSE RootIn(lo, mid - 1, t)

\* nobs**(-1/5.) for an integer nobs >= 1, rounded down to 1/RootPrec:
\* the largest k/RootPrec with (k/RootPrec)^5 * nobs <= 1
PowMinusFifth(n) == Q(RootIn(0, RootPrec, Pow5(RootPrec) \div n), RootPrec)

\* np.mean
QMean(s) == QDiv(QSum(s), I(Len(s)))

\* np.std(X, ddof=1): the sample standard deviation of at least two values
StdDev(X) ==
  LET mu == QMean(X)
      dev == [i \in 1..Len(X) |-> QSq(QSub(X[i], mu))]
  IN  QSqrt(QDiv(QSum(dev), I(Len(X) - 1)))

(***************************************************************************)
(* The bandwidth rules of the module bandwidths, which kde.py imports.     *)
(* A = min(sample standard deviation, interquartile range / 1.34);         *)
(* scott is 1.059 A n^(-1/5) and silverman is 0.9 A n^(-1/5).              *)
(***************************************************************************)
RECURSIVE Insert(_, _)
Insert(s, x) ==
  IF s = <<>> THEN <<x>>
  ELSE IF QLe(x, Head(s)) THEN <<x>> \o s
  ELSE <<Head(s)>> \o Insert(Tail(s), x)

RECURSIVE SortTo(_, _)
SortTo(s, n) == IF n = 0 THEN <<>> ELSE Insert(SortTo(s, n - 1), s[n])

Sorted(s) == SortTo(s, Len(s))

\* the per-th percentile, interpolated linearly between order statistics
Percentile(X, per) ==
  LET srt == Sorted(X)
      idx == QMul(Q(per, 100), I(Len(X) - 1))
      i == QInt(idx)
  IN  IF I(i) = idx THEN srt[i + 1]
      ELSE QAdd(srt[i + 1], QMul(QSub(srt[i + 2], srt[i + 1]), QSub(idx, I(i))))

select_sigma(X) ==
  LET sd == StdDev(X)
      iqr == QDiv(QSub(Percentile(X, 75), Percentile(X, 25)), Q(134, 100))
  IN  IF QLt(iqr, sd) THEN iqr ELSE sd

\* the places a bandwidth rule returns: 1/BwPrec
BwPrec == 10

bw_scott(X) ==
  QRound(QMul(QMul(Q(1059, 1000), select_sigma(X)), PowMinusFifth(Len(X))), BwPrec)

bw_silverman(X) ==
  QRound(QMul(QMul(Q(9, 10), select_sigma(X)), PowMinusFifth(Len(X))), BwPrec)

\* the dict of line 94
bandwidth_funcs(name, X) ==
  CASE name = str_scott -> bw_scott(X)
    [] name = str_silverman -> bw_silverman(X)

\* the mutant forgets bw.lower()
select_bandwidthCaseSensitive(X, bw, kernel) ==
  IF bw \notin {str_scott, str_silverman} THEN Raise("ValueError")
  ELSE IF kernel = str_gauss THEN Ok(bandwidth_funcs(bw, X))
  ELSE Raise("ValueError")

\* select_bandwidth(X, bw, kernel), lines 96-106
select_bandwidth(X, bw, kernel) ==
  LET name == lower(bw)
  IN  IF name \notin {str_scott, str_silverman} THEN Raise("ValueError")
      ELSE IF kernel = str_gauss THEN Ok(bandwidth_funcs(name, X))
      ELSE Raise("ValueError")

MaxSample == 3
MaxObs == 3

SampleVals == {I(v) : v \in 0..MaxSample}

\* samples of at least two observations (np.std with ddof=1 needs two)
Samples == UNION {SeqsOfLen(SampleVals, n) : n \in 2..MaxObs}

BwNames ==
  { str_scott, str_silverman,
    <<"S", "c", "o", "t", "t">>, <<"S", "C", "O", "T", "T">>,
    <<"s", "C", "o", "T", "t">>,
    <<"S", "i", "l", "v", "e", "r", "m", "a", "n">>,
    <<"S", "I", "L", "V", "E", "R", "M", "A", "N">>,
    <<"b", "o", "x", "c", "a", "r">>, <<"s", "c", "o", "t">>,
    <<"s", "c", "o", "t", "t", "s">>, <<"S", "c", "o", "t", "t", " ">>, <<>> }

KernelNames ==
  { str_gauss, str_epa, <<"G", "a", "u", "s", "s">>, <<"G", "A", "U", "S", "S">>,
    <<"b", "i">>, <<>> }

InitBandwidth ==
  /\ pc = "ready"
  /\ fn = "select_bandwidth"
  /\ arg \in {[X |-> X, bw |-> bw, kernel |-> k] :
                X \in Samples, bw \in BwNames, k \in KernelNames}
  /\ ret = None

CallSelectBandwidth ==
  /\ pc = "ready" /\ fn = "select_bandwidth"
  /\ ret' = select_bandwidth(arg.X, arg.bw, arg.kernel)
  /\ pc' = "done"
  /\ UNCHANGED <<fn, arg>>

NextBandwidth == CallSelectBandwidth

SpecBandwidth == InitBandwidth /\ [][NextBandwidth]_vars

\* the upper-case form of a lower-case letter
upperChar(c) ==
  IF \E i \in 1..26 : LowerLetters[i] = c
  THEN UpperLetters[CHOOSE i \in 1..26 : LowerLetters[i] = c]
  ELSE c

\* s spells the lower-case word w in some mixture of cases
Spells(s, w) ==
  /\ Len(s) = Len(w)
  /\ \A i \in 1..Len(w) : s[i] = w[i] \/ s[i] = upperChar(w[i])

\* C4: the name is matched whatever its case; an unknown name raises
\* ValueError, a known name with a kernel other than "gauss" raises
\* ValueError, and otherwise the rule of that name applied to X is returned.
SelectBandwidthContract ==
  (pc = "done" /\ fn = "select_bandwidth") =>
    IF ~Spells(arg.bw, str_scott) /\ ~Spells(arg.bw, str_silverman)
    THEN ret = Raise("ValueError")
    ELSE IF arg.kernel # str_gauss THEN ret = Raise("ValueError")
    ELSE IF Spells(arg.bw, str_scott) THEN ret = Ok(bw_scott(arg.X))
    ELSE ret = Ok(bw_silverman(arg.X))

SelectBandwidthWitness ==
  /\ pc = "done" /\ fn = "select_bandwidth"
  /\ arg.bw = <<"S", "I", "L", "V", "E", "R", "M", "A", "N">>
  /\ arg.kernel = str_gauss
  /\ ret.err = None /\ ret.val # bw_scott(arg.X) /\ QLt(I(0), ret.val)

(***************************************************************************)
(* The grid size of kdensity (lines 159-162) and kdensityfft (lines        *)
(* 241-243): max(nobs, 512) when none is requested, then rounded up to a   *)
(* power of two.  The two estimators below resolve their grid with         *)
(* ResolveGridsize; SpecGrid applies it on its own to sizes and sample     *)
(* counts on both sides of 512 and 1024, grids at which the transform of   *)
(* the binned data has no exact rational value.                            *)
(***************************************************************************)
DefaultGrid == 512

RECURSIVE CeilLog2From(_, _)
\* the least k >= k0 with 2^k >= g
CeilLog2From(k0, g) == IF 2 ^ k0 >= g THEN k0 ELSE CeilLog2From(k0 + 1, g)

\* np.ceil(np.log2(g)) for g >= 1
CeilLog2(g) == CeilLog2From(0, g)

IMax(x, y) == IF x >= y THEN x ELSE y
IMin(x, y) == IF x <= y THEN x ELSE y

\* the mutant reads the docstring, "min(len(X), 512) is used"
ResolveGridsizeMin(gridsize, nobs) ==
  2 ^ CeilLog2(IF gridsize = <<>> THEN IMin(nobs, DefaultGrid) ELSE gridsize[1])

ResolveGridsize(gridsize, nobs) ==
  2 ^ CeilLog2(IF gridsize = <<>> THEN IMax(nobs, DefaultGrid) ELSE gridsize[1])

MaxGrid == 1030
MaxNobs == 1030

GridInputs ==
  {[gridsize |-> <<g>>, nobs |-> n] : g \in 1..MaxGrid, n \in {2, 600}}
    \cup {[gridsize |-> <<>>, nobs |-> n] : n \in 1..MaxNobs}

InitGrid ==
  /\ pc = "ready"
  /\ fn = "gridsize"
  /\ arg \in GridInputs
  /\ ret = None

RoundGridsize ==
  /\ pc = "ready" /\ fn = "gridsize"
  /\ ret' = ResolveGridsize(arg.gridsize, arg.nobs)
  /\ pc' = "done"
  /\ UNCHANGED <<fn, arg>>

NextGrid == RoundGridsize

SpecGrid == InitGrid /\ [][NextGrid]_vars

PowersOfTwo == {2 ^ k : k \in 0..12}

\* p is the smallest power of two that is >= x
SmallestPowerAtLeast(p, x) ==
  /\ p \in PowersOfTwo /\ p >= x
  /\ \A q \in PowersOfTwo : q >= x => p <= q

GridDone == pc = "done" /\ fn = "gridsize"

ExpPrec == 10000

RECURSIVE ExpSeries(_, _, _, _)
\* the terms i.. of the series of exp(-r), r = rfp/ExpPrec in [0, 1), the
\* term before them being term/ExpPrec in absolute value
ExpSeries(rfp, i, term, sign) ==
  LET t == (term * rfp) \div (ExpPrec * i)
  IN  IF t = 0 THEN 0 ELSE sign * t + ExpSeries(rfp, i + 1, t, -sign)

RECURSIVE TimesInvE(_, _)
\* v * e^(-n), rounded down at each step (e^(-1) = 3679/ExpPrec)
TimesInvE(v, n) == IF n = 0 \/ v = 0 THEN v ELSE TimesInvE((v * 3679) \div ExpPrec, n - 1)

\* np.exp(-t) for t >= 0, to 1/ExpPrec; it underflows to 0 for large t
QExpNeg(t) ==
  LET n == QFloor(t)
      rfp == QFix(QSub(t, I(n)), ExpPrec)
      frac == ExpPrec + ExpSeries(rfp, 1, ExpPrec, -1)
  IN  IF n > 12 THEN I(0) ELSE Q(TimesInvE(frac, n), ExpPrec)

\* np.pi
PiQ == Q(22, 7)

\* silverman_transform(X, bw, RANGE), lines 38-53
silverman_transform(X, bw, RANGE) ==
  LET M == Len(X)
      FAC1 == QMul(I(2), QSq(QDiv(QMul(PiQ, bw), RANGE)))
      JFAC(J) == QMul(I(J * J), FAC1)
      BC(J) == QSub(I(1), QMul(Q(1, 3), QSq(QMul(Q(J, M), PiQ))))
      \* FAC[J] for J = 0..M/2, rounded as the float quotient is
      FAC == [J1 \in 1..(M \div 2 + 1) |->
                QRound(QDiv(QExpNeg(JFAC(J1 - 1)), BC(J1 - 1)), ExpPrec)]
      \* np.r_[FAC, FAC[1:-1]]
      fac == FAC \o SubSeq(FAC, 2, Len(FAC) - 1)
  IN  [i \in 1..M |-> QMul(fac[i], X[i])]

(***************************************************************************)
(* Arguments of the estimators.  bw is [kind |-> "num", v |-> q] for a     *)
(* number and [kind |-> "str", v |-> s] for a string; clip is              *)
(* <<lo, hi>>, each bound <<>> for the infinite default.                   *)
(***************************************************************************)
Digits == <<"0", "1", "2", "3", "4", "5", "6", "7", "8", "9">>

IsDigit(c) == \E i \in 1..10 : Digits[i] = c
DigitVal(c) == (CHOOSE i \in 1..10 : Digits[i] = c) - 1

\* the strings float() reads here: digits with at most one decimal point
IsNumeral(s) ==
  /\ \A i \in 1..Len(s) : IsDigit(s[i]) \/ s[i] = "."
  /\ \E i \in 1..Len(s) : IsDigit(s[i])
  /\ Cardinality({i \in 1..Len(s) : s[i] = "."}) <= 1

RECURSIVE NumeralFrom(_, _, _, _)
\* reading s from character i on, num/den read so far, den > 1 or point set
\* once the decimal point has been passed
NumeralFrom(s, i, acc, point) ==
  IF i > Len(s) THEN acc
  ELSE IF s[i] = "." THEN NumeralFrom(s, i + 1, acc, TRUE)
  ELSE IF point
       THEN NumeralFrom(s, i + 1, <<10 * acc[1] + DigitVal(s[i]), 10 * acc[2]>>, TRUE)
       ELSE NumeralFrom(s, i + 1, <<10 * acc[1] + DigitVal(s[i]), acc[2]>>, FALSE)

\* the mutant takes only numbers, as an isinstance test would
pyfloatNumbersOnly(bw) ==
  IF bw.kind = "num" THEN Ok(bw.v) ELSE Raise("ValueError")

\* float(bw), line 233
pyfloat(bw) ==
  IF bw.kind = "num" THEN Ok(bw.v)
  ELSE IF IsNumeral(bw.v)
       THEN LET r == NumeralFrom(bw.v, 1, <<0, 1>>, FALSE) IN Ok(Q(r[1], r[2]))
       ELSE Raise("ValueError")

\* X[np.logical_and(X > clip[0], X < clip[1])], lines 144 and 230
Clip(X, clip) ==
  LET In(x) == /\ clip[1] = <<>> \/ QLt(clip[1][1], x)
               /\ clip[2] = <<>> \/ QLt(x, clip[2][1])
  IN  SelectSeq(X, In)

\* np.linspace(start, stop, num)
linspace(start, stop, num) ==
  IF num = 1 THEN <<start>>
  ELSE [i \in 1..num |->
          QAdd(start, QMul(I(i - 1), QDiv(QSub(stop, start), I(num - 1))))]

(***************************************************************************)
(* kdensityfft, lines 191-280.  A call returns a record: err and val as    *)
(* for the other functions (val is <<f, grid>> or <<f>>), calls the        *)
(* functions of this file it called, in order, and the locals bw (after    *)
(* adjust), y (the output of forrt) and zstar (what revrt is handed), each *)
(* None if the call raised before binding it.                              *)
(***************************************************************************)
FftResult(err, val, calls, bw, y, zstar) ==
  [err |-> err, val |-> val, calls |-> calls, bw |-> bw, y |-> y, zstar |-> zstar]

\* lines 245-280, once the bandwidth is resolved
fftEstimate(X, bw, calls, gridsize0, cut, retgrid) ==
  LET nobs == Len(X)
      gridsize == ResolveGridsize(gridsize0, nobs)
      a == QSub(QMin(X), QMul(cut, bw))
      b == QAdd(QMax(X), QMul(cut, bw))
      grid == linspace(a, b, gridsize)
      delta == QDiv(QSub(b, a), I(gridsize - 1))
      RANGE == QSub(b, a)
      counts == linbin(X, a, b, gridsize, 1)
  IN  IF counts.err # None
      THEN FftResult(counts.err, None, calls \o <<"linbin">>, bw, None, None)
      ELSE LET binned == [i \in 1..gridsize |->
                            QDiv(counts.val[i], QMul(delta, I(nobs)))]
               y == forrt(binned, <<>>)
               zstar == silverman_transform(y, bw, RANGE)
               f == revrt(zstar, <<>>)
           IN  FftResult(None, IF retgrid THEN <<f, grid>> ELSE <<f>>,
                         calls \o <<"linbin", "forrt", "silverman_transform", "revrt">>,
                         bw, y, zstar)

\* the mutant smooths only for the Gaussian kernel and hands revrt the
\* output of forrt otherwise
kdensityfftGaussOnly(X, kernel, bw, adjust, gridsize, clip, cut, retgrid) ==
  LET Xc == Clip(X, clip)
      num == pyfloat(bw)
      res == IF num.err = None THEN num ELSE select_bandwidth(Xc, bw.v, kernel)
      calls == IF num.err = None THEN <<>> ELSE <<"select_bandwidth">>
      r == fftEstimate(Xc, QMul(res.val, adjust), calls, gridsize, cut, retgrid)
  IN  IF res.err # None THEN FftResult(res.err, None, calls, None, None, None)
      ELSE IF kernel = str_gauss \/ r.err # None THEN r
      ELSE [r EXCEPT !.zstar = r.y,
                     !.val = <<revrt(r.y, <<>>)>> \o Tail(r.val)]

kdensityfft(X, kernel, bw, adjust, gridsize, clip, cut, retgrid) ==
  LET Xc == Clip(X, clip)
      \* lines 232-235: the call of select_bandwidth is in the except clause,
      \* so what it raises leaves kdensityfft
      num == pyfloat(bw)
      res == IF num.err = None THEN num ELSE select_bandwidth(Xc, bw.v, kernel)
      calls == IF num.err = None THEN <<>> ELSE <<"select_bandwidth">>
  IN  IF res.err # None THEN FftResult(res.err, None, calls, None, None, None)
      ELSE fftEstimate(Xc, QMul(res.val, adjust), calls, gridsize, cut, retgrid)

(***************************************************************************)
(* kdensity, lines 111-187, called with weights=None and axis=0 (weights   *)
(* are not implemented).  val is <<density, contributions, grid>> or       *)
(* <<density, contributions>>; h is the bandwidth of lines 149-157, None   *)
(* if the call raised before binding it.                                   *)
(***************************************************************************)
KdeResult(err, val, h) == [err |-> err, val |-> val, h |-> h]

\* np.sqrt(5) and np.sqrt(2*np.pi)
Sqrt5 == QSqrt(I(5))
Sqrt2Pi == QSqrt(QMul(I(2), PiQ))

QAbs(x) == <<Abs(x[1]), x[2]>>

\* lines 150-155: h = c * nobs**(-1/5.); c is bound only for "gauss" and "epa"
ruleOfThumb(X, kernel) ==
  LET name == lower(kernel)
      sd == StdDev(X)
      c == IF name = str_epa THEN QMul(Q(10487, 10000), sd)
           ELSE QMul(Q(10592, 10000), sd)
  IN  IF name \notin {str_gauss, str_epa} THEN Raise("UnboundLocalError")
      ELSE Ok(QMul(c, PowMinusFifth(Len(X))))

\* lines 169-177: the kernel at u = (x - grid point)/h
kernelValue(kernel, u) ==
  LET name == lower(kernel)
  IN  IF name = str_epa
      THEN IF QLe(QAbs(u), Sqrt5)
           THEN QMul(QDiv(I(3), QMul(I(4), Sqrt5)), QSub(I(1), QMul(Q(2, 10), QSq(u))))
           ELSE I(0)
      ELSE IF name = str_gauss
      THEN QMul(QDiv(I(1), Sqrt2Pi), QExpNeg(QMul(Q(5, 10), QSq(u))))
      ELSE u

kdensity(X, kernel, bw, gridsize0, clip, cut, retgrid) ==
  LET Xc == Clip(X, clip)
      nobs == Len(Xc)
      hr == IF bw = <<>> THEN ruleOfThumb(Xc, kernel) ELSE Ok(bw[1])
      gridsize == ResolveGridsize(gridsize0, nobs)
  IN  IF hr.err # None THEN KdeResult(hr.err, None, None)
      \* line 164 multiplies cut by bw, which is still None
      ELSE IF bw = <<>> THEN KdeResult("TypeError", None, hr.val)
      ELSE LET h == hr.val
               grid == linspace(QSub(QMin(Xc), QMul(cut, bw[1])),
                                QAdd(QMax(Xc), QMul(cut, bw[1])), gridsize)
               \* weights == None: q = 1 and weights = 1, lines 180-183
               k == [g \in 1..gridsize |-> [i \in 1..nobs |->
                       kernelValue(kernel, QDiv(QSub(Xc[i], grid[g]), h))]]
               dens == [g \in 1..gridsize |->
                          QMean([i \in 1..nobs |-> QMul(QDiv(I(1), h), k[g][i])])]
               contrib == [g \in 1..gridsize |-> [i \in 1..nobs |-> QDiv(k[g][i], h)]]
           IN  KdeResult(None, IF retgrid THEN <<dens, contrib, grid>>
                               ELSE <<dens, contrib>>, h)

(***************************************************************************)
(* Calls of the two estimators.  The sample that is left after clipping    *)
(* has two observations or more that are not all equal (the degenerate     *)
(* samples reach divisions by zero that the code does not handle).  A      *)
(* requested gridsize is at most 4: the transforms are exact there.  The   *)
(* default gridsize is passed where the call raises before the grid is     *)
(* built.                                                                  *)
(***************************************************************************)
MaxKdeVal == 2
MaxKdeObs == 2

KdeSamples == UNION {SeqsOfLen({I(v) : v \in 0..MaxKdeVal}, n) : n \in 2..MaxKdeObs}

NoClip == <<<<>>, <<>>>>

Clips == {NoClip, <<<<>>, <<I(MaxKdeVal)>>>>}

Usable(X, clip) ==
  LET Xc == Clip(X, clip) IN Len(Xc) >= 2 /\ QLt(QMin(Xc), QMax(Xc))

str_boxcar == <<"b", "o", "x", "c", "a", "r">>

NumericBws == {[kind |-> "num", v |-> Q(1, 2)], [kind |-> "str", v |-> <<"2">>]}

RuleBws ==
  { [kind |-> "str", v |-> str_scott],
    [kind |-> "str", v |-> <<"S", "i", "l", "v", "e", "r", "m", "a", "n">>] }

UnknownBws == {[kind |-> "str", v |-> str_boxcar]}

FftKernels == {str_gauss, str_epa}

FftInputs ==
  {[X |-> X, kernel |-> k, bw |-> bw, adjust |-> I(adj), gridsize |-> <<g>>,
    clip |-> c, cut |-> I(cut), retgrid |-> rg] :
      X \in KdeSamples, k \in FftKernels,
      bw \in NumericBws \cup RuleBws \cup UnknownBws,
      adj \in {1, 2}, g \in {2, 3}, c \in Clips, cut \in {0, 3}, rg \in BOOLEAN}
  \cup
  {[X |-> X, kernel |-> k, bw |-> bw, adjust |-> I(1), gridsize |-> <<>>,
    clip |-> NoClip, cut |-> I(3), retgrid |-> TRUE] :
      X \in KdeSamples, k \in FftKernels, bw \in UnknownBws}

KdeKernels == {str_gauss, str_epa, <<"E", "p", "a">>, <<"b", "i">>}

KdeInputs ==
  {[X |-> X, kernel |-> k, bw |-> <<bw>>, gridsize |-> <<g>>,
    clip |-> c, cut |-> I(cut), retgrid |-> rg] :
      X \in KdeSamples, k \in KdeKernels, bw \in {Q(1, 2)},
      g \in {1, 3}, c \in Clips, cut \in {0, 3}, rg \in BOOLEAN}
  \cup
  {[X |-> X, kernel |-> k, bw |-> <<>>, gridsize |-> g,
    clip |-> c, cut |-> I(cut), retgrid |-> rg] :
      X \in KdeSamples, k \in KdeKernels, g \in {<<>>, <<3>>},
      c \in Clips, cut \in {0, 3}, rg \in BOOLEAN}

InitKde ==
  /\ pc = "ready"
  /\ \/ fn = "kdensityfft" /\ arg \in {i \in FftInputs : Usable(i.X, i.clip)}
     \/ fn = "kdensity" /\ arg \in {i \in KdeInputs : Usable(i.X, i.clip)}
  /\ ret = None

Callkdensityfft ==
  /\ pc = "ready" /\ fn = "kdensityfft"
  /\ ret' = kdensityfft(arg.X, arg.kernel, arg.bw, arg.adjust, arg.gridsize,
                        arg.clip, arg.cut, arg.retgrid)
  /\ pc' = "done"
  /\ UNCHANGED <<fn, arg>>

Callkdensity ==
  /\ pc = "ready" /\ fn = "kdensity"
  /\ ret' = kdensity(arg.X, arg.kernel, arg.bw, arg.gridsize,
                     arg.clip, arg.cut, arg.retgrid)
  /\ pc' = "done"
  /\ UNCHANGED <<fn, arg>>

NextKde == Callkdensityfft \/ Callkdensity

SpecKde == InitKde /\ [][NextKde]_vars

FftDone == pc = "done" /\ fn = "kdensityfft"
KdeDone == pc = "done" /\ fn = "kdensity"

\* the number a bw argument stands for, <<q>>, or <<>> if it stands for none
BwNumber(bw) ==
  IF bw.kind = "num" THEN <<bw.v>>
  ELSE IF bw.v = <<"0", ".", "5">> THEN <<Q(1, 2)>>
  ELSE IF bw.v = <<"2">> THEN <<I(2)>>
  ELSE <<>>

\* C5: a bw that stands for a number is the bandwidth (times adjust) and
\* select_bandwidth is not called; a bw that stands for no number and spells
\* neither rule makes select_bandwidth raise ValueError, which leaves
\* kdensityfft: nothing after it runs and no density is returned.
BandwidthParsing ==
  FftDone =>
    /\ BwNumber(arg.bw) # <<>> =>
         /\ "select_bandwidth" \notin {ret.calls[i] : i \in 1..Len(ret.calls)}
         /\ ret.bw = QMul(BwNumber(arg.bw)[1], arg.adjust)
    /\ (/\ BwNumber(arg.bw) = <<>>
        /\ ~Spells(arg.bw.v, str_scott) /\ ~Spells(arg.bw.v, str_silverman)) =>
         /\ ret.err = "ValueError" /\ ret.val = None
         /\ ret.calls = <<"select_bandwidth">>

BandwidthParsingWitness ==
  /\ FftDone /\ arg.bw.v = str_boxcar /\ arg.kernel = str_gauss
  /\ ret.err = "ValueError"

\* the rule of thumb of C6: c * sigma * n^(-1/5)
RuleOfThumbValue ==
  LET Xc == Clip(arg.X, arg.clip)
  IN  QMul(QMul(IF arg.kernel = str_gauss THEN Q(10592, 10000) ELSE Q(10487, 10000),
                StdDev(Xc)), PowMinusFifth(Len(Xc)))

\* C6 as claimed: without a bandwidth and with kernel "gauss" or "epa",
\* kdensity resolves the rule-of-thumb bandwidth, spans the grid from
\* min(X) - cut*bw to max(X) + cut*bw with it, and returns a density.
AutoBandwidth ==
  (KdeDone /\ arg.bw = <<>> /\ arg.kernel \in {str_gauss, str_epa}) =>
    /\ ret.err = None
    /\ ret.h = RuleOfThumbValue
    /\ arg.retgrid =>
         LET Xc == Clip(arg.X, arg.clip)
             grid == ret.val[3]
         IN  /\ grid[1] = QSub(QMin(Xc), QMul(arg.cut, ret.h))
             /\ grid[Len(grid)] = QAdd(QMax(Xc), QMul(arg.cut, ret.h))

\* C7 as claimed: a kernel other than "gauss" is not rejected and the
\* spectrum handed to revrt is the output of forrt.
KernelNoOp ==
  (FftDone /\ arg.kernel # str_gauss) =>
    /\ ret.err # "ValueError"
    /\ ret.err = None => ret.zstar = ret.y

\* C7 as amended: with a kernel other than "gauss", kdensityfft raises
\* ValueError when bw stands for no number (select_bandwidth rejects the
\* kernel or the name); when bw stands for a number the call is not rejected
\* and the kernel is ignored: the call does what it does for "gauss", and the
\* spectrum handed to revrt is the Gaussian smoothing
\* silverman_transform(y, bw, RANGE) of the output y of forrt.
KernelIgnored ==
  (FftDone /\ arg.kernel # str_gauss) =>
    /\ BwNumber(arg.bw) = <<>> => (ret.err = "ValueError" /\ ret.val = None)
    /\ BwNumber(arg.bw) # <<>> =>
         /\ ret.err # "ValueError"
         /\ ret = kdensityfft(arg.X, str_gauss, arg.bw, arg.adjust, arg.gridsize,
                              arg.clip, arg.cut, arg.retgrid)
         /\ ret.err = None =>
              LET Xc == Clip(arg.X, arg.clip)
                  RANGE == QAdd(QSub(QMax(Xc), QMin(Xc)),
                                QMul(I(2), QMul(arg.cut, ret.bw)))
              IN  ret.zstar = silverman_transform(ret.y, ret.bw, RANGE)

KernelIgnoredWitness ==
  /\ FftDone /\ arg.kernel = str_epa /\ BwNumber(arg.bw) # <<>>
  /\ ret.err = None /\ ret.zstar # ret.y

====
